---- MODULE Spec2Model ----
(***************************************************************************)
(* Model of the 4D geometry kernel of cztery-de:                           *)
(*   src/backend/main.py  - Vector4D, Shape4D, Transform4D,                *)
(*                          create_4d_cube, apply_transform, the routes    *)
(*   src/shared/math4d.py - create_4d_cube_vertices, create_4d_cube_edges, *)
(*                          project_4d_to_3d, rotation_matrix_4d_xy/xz/xw, *)
(*                          matrix_multiply_4d                             *)
(*                                                                         *)
(* Python floats are modelled as a scaled-down binary floating-point       *)
(* format: a float is an integer count of units of 2^-FracBits whose       *)
(* significand fits in Precision bits; every arithmetic operation rounds   *)
(* its exact result to the nearest such value, ties to even, as IEEE-754   *)
(* binary64 does with 53 bits.  Infinities and NaN are not modelled.       *)
(***************************************************************************)
EXTENDS Integers, Sequences, FiniteSets, TLC

VARIABLES
    pc,         \* position of the running call ("idle" when none runs)
    i,          \* loop variable i of create_4d_cube / matrix_multiply_4d
    j,          \* loop variable j of create_4d_cube / matrix_multiply_4d
    size,       \* create_4d_cube: argument size
    vertices,   \* create_4d_cube: local list vertices
    edges,      \* create_4d_cube: local list edges
    cube,       \* create_4d_cube: the returned Shape4D
    origin,     \* transform chain: the shape S it started from
    shape,      \* transform_shape: argument shape (the caller's object)
    transform,  \* transform_shape: argument transform
    response,   \* transform_shape: the returned Shape4D
    hist,       \* transform chain: the translations applied so far, in order
    point,      \* project_4d_to_3d: argument point
    distance,   \* project_4d_to_3d: argument distance
    outcome,    \* project_4d_to_3d: what the call produced (return or raise)
    rotation,   \* rotation_matrix_4d_*: the call (plane, angle) that built matrix
    matrix,     \* matrix_multiply_4d: argument matrix
    vector,     \* matrix_multiply_4d: argument vector
    result,     \* matrix_multiply_4d: local list result
    product     \* matrix_multiply_4d: the returned tuple

vars == <<pc, i, j, size, vertices, edges, cube, origin, shape, transform,
          response, hist, point, distance, outcome, rotation, matrix,
          vector,
          result, product>>

cubeVars == <<size, vertices, edges, cube>>
chainVars == <<origin, shape, transform, response, hist>>
projVars == <<point, distance, outcome>>
mulVars == <<rotation, matrix, vector, result, product>>

None == "None"

----------------------------------------------------------------------------
(* Bounds of the model *)

FracBits == 2       \* a float is a multiple of 2^-FracBits
Precision == 3      \* significand bits of a float
MaxSize == 2        \* |size| <= MaxSize
MaxCalls == 2       \* transform_shape calls in one chain
MaxAngle == 1       \* rotation angles of a Transform4D are 0..MaxAngle
MaxW == 4           \* projection: w in -1..MaxW
MaxDistance == 5    \* projection: distance in -1..MaxDistance

----------------------------------------------------------------------------
(* Floating-point arithmetic *)

RECURSIVE Pow2(_)
Pow2(n) == IF n <= 0 THEN 1 ELSE 2 * Pow2(n - 1)

Abs(n) == IF n < 0 THEN -n ELSE n

Unit == Pow2(FracBits)

\* Spacing of the floats around magnitude n (n in units of 2^-FracBits).
RECURSIVE Ulp(_)
Ulp(n) == IF Abs(n) < Pow2(Precision) THEN 1 ELSE 2 * Ulp(Abs(n) \div 2)

Representable(n) == n % Ulp(n) = 0

\* num/den (den > 0, num >= 0) rounded to the nearest float, ties to even.
RoundPos(num, den) ==
    LET q  == num \div den
        u  == Ulp(q)
        lo == (q \div u) * u
        hi == lo + u
        twice == 2 * (num - lo * den)
    IN  IF twice < u * den THEN lo
        ELSE IF twice > u * den THEN hi
        ELSE IF (lo \div u) % 2 = 0 THEN lo ELSE hi

\* num/den (den # 0) rounded to the nearest float, ties to even.
Round(num, den) ==
    LET n == IF den < 0 THEN -num ELSE num
        d == Abs(den)
    IN  IF n < 0 THEN -RoundPos(-n, d) ELSE RoundPos(n, d)

FromInt(n) == Round(n * Unit, 1)

FloatAdd(a, b) == Round(a + b, 1)
FloatSub(a, b) == Round(a - b, 1)
FloatMul(a, b) == Round(a * b, Unit)
FloatDiv(a, b) == Round(a * Unit, b)
FloatNeg(a) == -a

----------------------------------------------------------------------------
(* Integer bit operations of Python: i & m, i ^ j, bin(n).count('1') *)

RECURSIVE BitAnd(_, _)
BitAnd(a, b) ==
    IF a = 0 \/ b = 0 THEN 0
    ELSE (a % 2) * (b % 2) + 2 * BitAnd(a \div 2, b \div 2)

\* Mutant of BitXor: i | j written for i ^ j.
RECURSIVE BitXor_Or(_, _)
BitXor_Or(a, b) ==
    IF a = 0 /\ b = 0 THEN 0
    ELSE (IF (a % 2) + (b % 2) > 0 THEN 1 ELSE 0)
         + 2 * BitXor_Or(a \div 2, b \div 2)

RECURSIVE BitXor(_, _)
BitXor(a, b) ==
    IF a = 0 /\ b = 0 THEN 0
    ELSE (((a % 2) + (b % 2)) % 2) + 2 * BitXor(a \div 2, b \div 2)

RECURSIVE CountOnes(_)
CountOnes(n) == IF n = 0 THEN 0 ELSE (n % 2) + CountOnes(n \div 2)

----------------------------------------------------------------------------
(* Data model: src/backend/main.py *)

Vector4D(x, y, z, w) == [x |-> x, y |-> y, z |-> z, w |-> w]

DefaultPosition == Vector4D(0, 0, 0, 0)

Shape4D(vs, es, pos) == [vertices |-> vs, edges |-> es, position |-> pos]

RotationFields == {"rotation_xy", "rotation_xz", "rotation_xw",
                   "rotation_yz", "rotation_yw", "rotation_zw"}

Transform4D(rot, tr) ==
    [rotation_xy |-> rot["rotation_xy"], rotation_xz |-> rot["rotation_xz"],
     rotation_xw |-> rot["rotation_xw"], rotation_yz |-> rot["rotation_yz"],
     rotation_yw |-> rot["rotation_yw"], rotation_zw |-> rot["rotation_zw"],
     translation |-> tr]

NoRotation == [f \in RotationFields |-> 0]

DefaultTransform == Transform4D(NoRotation, DefaultPosition)

----------------------------------------------------------------------------
(* create_4d_cube: src/backend/main.py *)

NumVertices == 16

\* Mutant of Coordinate: the two branches exchanged.
Coordinate_Flipped(s, n, mask) == IF BitAnd(n, mask) # 0 THEN FloatNeg(s) ELSE s

\* One coordinate of vertex i: size if (i & mask) else -size.
Coordinate(s, n, mask) == IF BitAnd(n, mask) # 0 THEN s ELSE FloatNeg(s)

CubeVertex(s, n) ==
    Vector4D(Coordinate(s, n, 1), Coordinate(s, n, 2),
             Coordinate(s, n, 4), Coordinate(s, n, 8))

\* Mutant of OneBitDiffers: the difference itself compared with 1.
OneBitDiffers_LowBit(a, b) == BitXor(a, b) = 1

\* The test of the inner edge loop: bin(i ^ j).count('1') == 1.
OneBitDiffers(a, b) == CountOnes(BitXor(a, b)) = 1

Sizes == {n \in (-MaxSize * Unit) .. (MaxSize * Unit) : Representable(n)}

get_4d_cube(s) ==
    /\ pc = "idle"
    /\ pc' = "vertices"
    /\ size' = s
    /\ vertices' = <<>>
    /\ i' = 0
    /\ UNCHANGED <<j, edges, cube, chainVars, projVars, mulVars>>

VertexLoop ==
    /\ pc = "vertices"
    /\ i < NumVertices
    /\ vertices' = Append(vertices, CubeVertex(size, i))
    /\ i' = i + 1
    /\ UNCHANGED <<pc, j, size, edges, cube, chainVars, projVars, mulVars>>

VertexLoopDone ==
    /\ pc = "vertices"
    /\ i >= NumVertices
    /\ pc' = "edges_outer"
    /\ edges' = <<>>
    /\ i' = 0
    /\ UNCHANGED <<j, size, vertices, cube, chainVars, projVars, mulVars>>

EdgeOuterLoop ==
    /\ pc = "edges_outer"
    /\ i < NumVertices
    /\ j' = i + 1
    /\ pc' = "edges_inner"
    /\ UNCHANGED <<i, size, vertices, edges, cube, chainVars, projVars,
                 mulVars>>

EdgeInnerLoop ==
    /\ pc = "edges_inner"
    /\ j < NumVertices
    /\ edges' = IF OneBitDiffers(i, j) THEN Append(edges, <<i, j>>) ELSE edges
    /\ j' = j + 1
    /\ UNCHANGED <<pc, i, size, vertices, cube, chainVars, projVars, mulVars>>

EdgeInnerLoopDone ==
    /\ pc = "edges_inner"
    /\ j >= NumVertices
    /\ i' = i + 1
    /\ pc' = "edges_outer"
    /\ UNCHANGED <<j, size, vertices, edges, cube, chainVars, projVars,
                 mulVars>>

CubeReturn ==
    /\ pc = "edges_outer"
    /\ i >= NumVertices
    /\ cube' = Shape4D(vertices, edges, DefaultPosition)
    /\ pc' = "done"
    /\ UNCHANGED <<i, j, size, vertices, edges, chainVars, projVars, mulVars>>

\* The matrix was not built by a rotation_matrix_4d_* call.
NoRotationCall == [plane |-> "literal", angle |-> 0]

\* No call is running.
Init ==
    /\ pc = "idle"
    /\ i = 0
    /\ j = 0
    /\ size = None
    /\ vertices = <<>>
    /\ edges = <<>>
    /\ cube = None
    /\ origin = None /\ shape = None /\ transform = None
    /\ response = None /\ hist = <<>>
    /\ point = None /\ distance = None /\ outcome = None
    /\ rotation = NoRotationCall /\ matrix = None /\ vector = None
    /\ result = None /\ product = None

NextCube ==
    \/ \E s \in Sizes : get_4d_cube(s)
    \/ VertexLoop
    \/ VertexLoopDone
    \/ EdgeOuterLoop
    \/ EdgeInnerLoop
    \/ EdgeInnerLoopDone
    \/ CubeReturn


----------------------------------------------------------------------------
(* apply_transform, transform_shape: src/backend/main.py *)

\* Mutant of apply_transform: w is left out of the translation.
apply_transform_NoW(sh, tf) ==
    Shape4D(sh.vertices, sh.edges,
            Vector4D(FloatAdd(sh.position.x, tf.translation.x),
                     FloatAdd(sh.position.y, tf.translation.y),
                     FloatAdd(sh.position.z, tf.translation.z),
                     sh.position.w))

\* Mutant of apply_transform: a non-zero rotation_xy turns every vertex a
\* quarter turn in the xy plane.
apply_transform_Rotating(sh, tf) ==
    Shape4D([k \in 1..Len(sh.vertices) |->
                IF tf.rotation_xy # 0
                THEN Vector4D(FloatNeg(sh.vertices[k].y), sh.vertices[k].x,
                              sh.vertices[k].z, sh.vertices[k].w)
                ELSE sh.vertices[k]],
            sh.edges,
            Vector4D(FloatAdd(sh.position.x, tf.translation.x),
                     FloatAdd(sh.position.y, tf.translation.y),
                     FloatAdd(sh.position.z, tf.translation.z),
                     FloatAdd(sh.position.w, tf.translation.w)))

\* Mutant of apply_transform: the position is set to the translation.
apply_transform_Absolute(sh, tf) ==
    Shape4D(sh.vertices, sh.edges,
            Vector4D(tf.translation.x, tf.translation.y,
                     tf.translation.z, tf.translation.w))

apply_transform(sh, tf) ==
    Shape4D(sh.vertices, sh.edges,
            Vector4D(FloatAdd(sh.position.x, tf.translation.x),
                     FloatAdd(sh.position.y, tf.translation.y),
                     FloatAdd(sh.position.z, tf.translation.z),
                     FloatAdd(sh.position.w, tf.translation.w)))

\* The first float from which on consecutive integers are no longer all
\* floats (2^53 for binary64).
Big == FromInt(Pow2(Precision))

\* Request bodies of POST /shapes/transform.  The route validates the field
\* types only: edge indices are not checked against the vertices.
BigPosition == Vector4D(Big, FromInt(1), -Big, 1)

InputShapes ==
    {Shape4D(<<Vector4D(-Unit, -Unit, -Unit, -Unit),
               Vector4D(Unit, Unit, Unit, Unit)>>, <<<<0, 1>>>>,
             DefaultPosition),
     Shape4D(<<Vector4D(0, 1, 2, 3)>>, <<<<0, 5>>, <<0, 0>>>>, BigPosition)}

Translations ==
    {DefaultPosition,
     Vector4D(FromInt(1), FromInt(2), FromInt(3), FromInt(4)),
     Vector4D(FromInt(-1), 0, FromInt(1), FromInt(-2)),
     Vector4D(FromInt(1), FromInt(-1), 0, 0),
     Vector4D(1, -2, 3, 2)}

Angles == {FromInt(a) : a \in 0..MaxAngle}

Rotations ==
    {NoRotation}
    \cup {[NoRotation EXCEPT ![f] = a] : f \in RotationFields, a \in Angles}
    \cup {[f \in RotationFields |-> a] : a \in Angles}

Transforms == {Transform4D(r, t) : r \in Rotations, t \in Translations}

transform_shape(tf) ==
    /\ pc = "ready"
    /\ Len(hist) < MaxCalls
    /\ transform' = tf
    /\ response' = apply_transform(shape, tf)
    /\ hist' = Append(hist, tf.translation)
    /\ pc' = "responded"
    /\ UNCHANGED <<i, j, origin, shape, cubeVars, projVars, mulVars>>

\* A client picks the shape of its first POST /shapes/transform request.
FirstRequest(sh) ==
    /\ pc = "idle"
    /\ shape' = sh
    /\ origin' = sh
    /\ pc' = "ready"
    /\ UNCHANGED <<i, j, transform, response, hist, cubeVars, projVars,
                   mulVars>>

\* The client posts the shape it received as the shape of its next request.
Resubmit ==
    /\ pc = "responded"
    /\ shape' = response
    /\ pc' = "ready"
    /\ UNCHANGED <<i, j, origin, transform, response, hist, cubeVars,
                   projVars, mulVars>>

NextChain ==
    \/ \E sh \in InputShapes : FirstRequest(sh)
    \/ \E tf \in Transforms : transform_shape(tf)
    \/ Resubmit

----------------------------------------------------------------------------
(* project_4d_to_3d: src/shared/math4d.py *)

Return(v) == [kind |-> "return", value |-> v]
Raise(e) == [kind |-> "raise", error |-> e]

\* Mutant of project_4d_to_3d: a zero divisor yields infinities.
project_4d_to_3d_Infinity(p, d) ==
    LET divisor == FloatSub(d, p[4])
        factor == FloatDiv(d, divisor)
    IN  IF divisor = 0 THEN Return(<<"inf", "inf", "inf">>)
        ELSE Return(<<FloatMul(p[1], factor), FloatMul(p[2], factor),
                      FloatMul(p[3], factor)>>)

\* Mutant of project_4d_to_3d: distance + w as the divisor.
project_4d_to_3d_PlusW(p, d) ==
    LET divisor == FloatAdd(d, p[4])
        factor == FloatDiv(d, divisor)
    IN  IF divisor = 0 THEN Raise("ZeroDivisionError")
        ELSE Return(<<FloatMul(p[1], factor), FloatMul(p[2], factor),
                      FloatMul(p[3], factor)>>)

\* Python's float division raises ZeroDivisionError on a zero divisor.
project_4d_to_3d(p, d) ==
    LET x == p[1]
        y == p[2]
        z == p[3]
        w == p[4]
        divisor == FloatSub(d, w)
        factor == FloatDiv(d, divisor)
    IN  IF divisor = 0 THEN Raise("ZeroDivisionError")
        ELSE Return(<<FloatMul(x, factor), FloatMul(y, factor),
                      FloatMul(z, factor)>>)

PlaneCoords == {FromInt(-1), 0, 3, FromInt(1)}
WCoords == {FromInt(n) : n \in -1..MaxW} \cup {1}
Points == PlaneCoords \X PlaneCoords \X PlaneCoords \X WCoords
Distances == {FromInt(n) : n \in -1..MaxDistance} \cup {1}

Project(p, d) ==
    /\ pc = "idle"
    /\ point' = p
    /\ distance' = d
    /\ outcome' = project_4d_to_3d(p, d)
    /\ pc' = "projected"
    /\ UNCHANGED <<i, j, cubeVars, chainVars, mulVars>>

NextProject == \E p \in Points, d \in Distances : Project(p, d)

----------------------------------------------------------------------------
(* rotation_matrix_4d_xy/xz/xw, matrix_multiply_4d: src/shared/math4d.py *)

\* math.cos and math.sin.  An angle is given in twelfths of a turn (30
\* degrees); the tables hold 1000 * cos, and the value is rounded to a float.
CosMilli == <<1000, 866, 500, 0, -500, -866, -1000, -866, -500, 0, 500, 866>>

math_cos(a) == Round(CosMilli[(a % 12) + 1] * Unit, 1000)
math_sin(a) == Round(CosMilli[((a + 9) % 12) + 1] * Unit, 1000)

One == FromInt(1)

rotation_matrix_4d_xy(a) ==
    LET c == math_cos(a)
        s == math_sin(a)
    IN  << <<c, FloatNeg(s), 0, 0>>,
           <<s, c, 0, 0>>,
           <<0, 0, One, 0>>,
           <<0, 0, 0, One>> >>

\* Mutant of rotation_matrix_4d_xz: s and -s exchanged.
rotation_matrix_4d_xz_Transposed(a) ==
    LET c == math_cos(a)
        s == math_sin(a)
    IN  << <<c, 0, s, 0>>,
           <<0, One, 0, 0>>,
           <<FloatNeg(s), 0, c, 0>>,
           <<0, 0, 0, One>> >>

rotation_matrix_4d_xz(a) ==
    LET c == math_cos(a)
        s == math_sin(a)
    IN  << <<c, 0, FloatNeg(s), 0>>,
           <<0, One, 0, 0>>,
           <<s, 0, c, 0>>,
           <<0, 0, 0, One>> >>

rotation_matrix_4d_xw(a) ==
    LET c == math_cos(a)
        s == math_sin(a)
    IN  << <<c, 0, 0, FloatNeg(s)>>,
           <<0, One, 0, 0>>,
           <<0, 0, One, 0>>,
           <<s, 0, 0, c>> >>

AngleSteps == 0..11

Identity4 == << <<One, 0, 0, 0>>, <<0, One, 0, 0>>,
                <<0, 0, One, 0>>, <<0, 0, 0, One>> >>

\* Matrices a caller writes down itself.
LiteralMatrices ==
    {Identity4,
     << <<1, 2, 3, One>>, <<FromInt(-1), 0, 6, 2>>,
        <<FromInt(2), -3, One, 0>>, <<5, FromInt(-2), 1, 7>> >>}

Vectors ==
    {<<One, 0, 0, 0>>,
     <<FromInt(1), FromInt(2), FromInt(3), FromInt(4)>>,
     <<FromInt(-1), 2, 0, FromInt(2)>>,
     <<3, FromInt(-2), 5, 1>>}

RotationXY(a) ==
    /\ pc = "idle"
    /\ rotation' = [plane |-> "xy", angle |-> a]
    /\ matrix' = rotation_matrix_4d_xy(a)
    /\ pc' = "matrix"
    /\ UNCHANGED <<i, j, vector, result, product, cubeVars, chainVars,
                   projVars>>

RotationXZ(a) ==
    /\ pc = "idle"
    /\ rotation' = [plane |-> "xz", angle |-> a]
    /\ matrix' = rotation_matrix_4d_xz(a)
    /\ pc' = "matrix"
    /\ UNCHANGED <<i, j, vector, result, product, cubeVars, chainVars,
                   projVars>>

RotationXW(a) ==
    /\ pc = "idle"
    /\ rotation' = [plane |-> "xw", angle |-> a]
    /\ matrix' = rotation_matrix_4d_xw(a)
    /\ pc' = "matrix"
    /\ UNCHANGED <<i, j, vector, result, product, cubeVars, chainVars,
                   projVars>>

LiteralMatrix(m) ==
    /\ pc = "idle"
    /\ matrix' = m
    /\ pc' = "matrix"
    /\ UNCHANGED <<i, j, rotation, vector, result, product, cubeVars,
                   chainVars, projVars>>

matrix_multiply_4d(v) ==
    /\ pc = "matrix"
    /\ vector' = v
    /\ result' = <<0, 0, 0, 0>>
    /\ i' = 0
    /\ pc' = "mul_outer"
    /\ UNCHANGED <<j, rotation, matrix, product, cubeVars, chainVars,
                   projVars>>

MulOuterLoop ==
    /\ pc = "mul_outer"
    /\ i < 4
    /\ j' = 0
    /\ pc' = "mul_inner"
    /\ UNCHANGED <<i, mulVars, cubeVars, chainVars, projVars>>

\* Mutant of Accumulate: = written for +=.
Accumulate_Overwrite(acc, m, v) == FloatMul(m, v)

\* result[i] += matrix[i][j] * vector[j]
Accumulate(acc, m, v) == FloatAdd(acc, FloatMul(m, v))

MulInnerLoop ==
    /\ pc = "mul_inner"
    /\ j < 4
    /\ result' = [result EXCEPT ![i + 1] =
                      Accumulate(@, matrix[i + 1][j + 1], vector[j + 1])]
    /\ j' = j + 1
    /\ UNCHANGED <<pc, i, rotation, matrix, vector, product, cubeVars,
                   chainVars, projVars>>

MulInnerLoopDone ==
    /\ pc = "mul_inner"
    /\ j >= 4
    /\ i' = i + 1
    /\ pc' = "mul_outer"
    /\ UNCHANGED <<j, mulVars, cubeVars, chainVars, projVars>>

MulReturn ==
    /\ pc = "mul_outer"
    /\ i >= 4
    /\ product' = result
    /\ pc' = "returned"
    /\ UNCHANGED <<i, j, rotation, matrix, vector, result, cubeVars,
                   chainVars, projVars>>

NextMatrix ==
    \/ \E a \in AngleSteps : RotationXY(a)
    \/ \E a \in AngleSteps : RotationXZ(a)
    \/ \E a \in AngleSteps : RotationXW(a)
    \/ \E m \in LiteralMatrices : LiteralMatrix(m)
    \/ \E v \in Vectors : matrix_multiply_4d(v)
    \/ MulOuterLoop
    \/ MulInnerLoop
    \/ MulInnerLoopDone
    \/ MulReturn

----------------------------------------------------------------------------
(* create_4d_cube_vertices, create_4d_cube_edges: src/shared/math4d.py *)

create_4d_cube_vertices(s) ==
    [n \in 1..NumVertices |->
        <<Coordinate(s, n - 1, 1), Coordinate(s, n - 1, 2),
          Coordinate(s, n - 1, 4), Coordinate(s, n - 1, 8)>>]

\* The inner loop for one i: the pairs (a, j), j = a+1..15, that pass the
\* test, in increasing order of j.
InnerEdgeLoop(a) ==
    SelectSeq([k \in 1..(NumVertices - 1 - a) |-> <<a, a + k>>],
              LAMBDA e : OneBitDiffers(e[1], e[2]))

\* The outer loop from i = a on, appending to acc.
RECURSIVE OuterEdgeLoop(_, _)
OuterEdgeLoop(a, acc) ==
    IF a >= NumVertices THEN acc
    ELSE OuterEdgeLoop(a + 1, acc \o InnerEdgeLoop(a))

create_4d_cube_edges == OuterEdgeLoop(0, <<>>)

----------------------------------------------------------------------------
(* The kernel: every call starts from the idle state *)

Next == NextCube \/ NextChain \/ NextProject \/ NextMatrix

Spec == Init /\ [][Next]_vars

----------------------------------------------------------------------------
(* Properties of hypercube generation *)

\* Bit k of n, and the coordinate it selects.
Bit(n, k) == (n \div Pow2(k)) % 2
Signed(s, b) == IF b = 1 THEN s ELSE 0 - s

\* a and b differ in exactly one of their four bits.
HammingOne(a, b) ==
    \E k \in 0..3 :
        /\ Bit(a, k) # Bit(b, k)
        /\ \A m \in 0..3 : m # k => Bit(a, m) = Bit(b, m)

\* Number of edges of es that have v as an endpoint.
Degree(es, v) ==
    Cardinality({k \in 1..Len(es) : es[k][1] = v \/ es[k][2] = v})

Tesseract(vs, es) ==
    /\ Len(vs) = 16
    /\ Len(es) = 32
    /\ \A v \in 0..15 : Degree(es, v) = 4

\* C1: for every size > 0 the generated shape has exactly 16 vertices and
\* exactly 32 edges, and every vertex index 0..15 is an endpoint of exactly
\* 4 edges (create_4d_cube, and the shared vertex/edge generators).
C1_SixteenVerticesThirtyTwoEdges ==
    (pc = "done" /\ size > 0) =>
        /\ Tesseract(cube.vertices, cube.edges)
        /\ Tesseract(create_4d_cube_vertices(size), create_4d_cube_edges)

C1_Witness ==
    /\ pc = "done"
    /\ size = FromInt(1)
    /\ Len(cube.vertices) = 16
    /\ Degree(cube.edges, 15) = 4

\* C2: for every size, vertex i has x = +size if bit 0 of i is set else
\* -size, y from bit 1, z from bit 2, w from bit 3, and the vertices are
\* listed in increasing order of i (also while the list is being built).
C2_VertexCoordinatesFollowBits ==
    /\ pc \in {"vertices", "edges_outer", "edges_inner", "done"} =>
          \A k \in 1..Len(vertices) :
              vertices[k] = [x |-> Signed(size, Bit(k - 1, 0)),
                             y |-> Signed(size, Bit(k - 1, 1)),
                             z |-> Signed(size, Bit(k - 1, 2)),
                             w |-> Signed(size, Bit(k - 1, 3))]
    /\ pc = "done" =>
          /\ cube.vertices = vertices
          /\ Len(cube.vertices) = 16
          /\ \A k \in 0..15 :
                create_4d_cube_vertices(size)[k + 1] =
                    <<Signed(size, Bit(k, 0)), Signed(size, Bit(k, 1)),
                      Signed(size, Bit(k, 2)), Signed(size, Bit(k, 3))>>

C2_Witness ==
    /\ pc = "done"
    /\ size = FromInt(-2)
    /\ cube.vertices[1] = Vector4D(FromInt(2), FromInt(2), FromInt(2), FromInt(2))
    /\ cube.vertices[6] = Vector4D(FromInt(-2), FromInt(2), FromInt(-2), FromInt(2))

EdgeSet(es) == {es[k] : k \in 1..Len(es)}

\* C3: the edge list holds the pair (i, j) exactly when 0 <= i < j < 16 and
\* i, j differ in exactly one bit, each pair once: no self-loop, no pair in
\* both orders, no index outside 0..15, whatever the size.
C3_EdgesAreOneBitPairs ==
    pc = "done" =>
        /\ EdgeSet(cube.edges) =
              {e \in (0..15) \X (0..15) : e[1] < e[2] /\ HammingOne(e[1], e[2])}
        /\ Cardinality(EdgeSet(cube.edges)) = Len(cube.edges)
        /\ \A e \in EdgeSet(cube.edges) :
              /\ e[1] # e[2]
              /\ <<e[2], e[1]>> \notin EdgeSet(cube.edges)
              /\ e[1] \in 0..15 /\ e[2] \in 0..15

C3_Witness ==
    /\ pc = "done"
    /\ size = FromInt(2)
    /\ <<7, 15>> \in EdgeSet(cube.edges)
    /\ <<0, 3>> \notin EdgeSet(cube.edges)

----------------------------------------------------------------------------
(* Properties of apply_transform *)

SamePoints(a, b) == a.vertices = b.vertices /\ a.edges = b.edges

\* C4: the returned shape has the vertices and edges of the input shape and
\* position = shape.position + transform.translation in each of x, y, z, w;
\* the call leaves the input shape as it was; the identity transform returns
\* vertices, edges and position unchanged.
C4_TranslatesPositionOnly ==
    /\ [](pc = "responded" =>
            /\ SamePoints(response, shape)
            /\ response.position.x =
                   FloatAdd(shape.position.x, transform.translation.x)
            /\ response.position.y =
                   FloatAdd(shape.position.y, transform.translation.y)
            /\ response.position.z =
                   FloatAdd(shape.position.z, transform.translation.z)
            /\ response.position.w =
                   FloatAdd(shape.position.w, transform.translation.w)
            /\ transform = DefaultTransform => response = shape)
    /\ [][pc = "ready" /\ pc' = "responded" => shape' = shape]_vars

C4_Witness ==
    /\ pc = "responded"
    /\ shape.position = DefaultPosition
    /\ transform.translation =
           Vector4D(FromInt(1), FromInt(2), FromInt(3), FromInt(4))
    /\ response.position =
           Vector4D(FromInt(1), FromInt(2), FromInt(3), FromInt(4))

AllRotations == [RotationFields -> Angles]

\* C5: the six rotation angles are inert: any transform with the same
\* translation, whatever its six angles, gives the same vertices, edges and
\* position.
C5_RotationAnglesInert ==
    pc = "responded" =>
        \A r \in AllRotations :
            apply_transform(shape, Transform4D(r, transform.translation))
                = response

C5_Witness ==
    /\ pc = "responded"
    /\ transform.rotation_xw # 0
    /\ transform.rotation_xy = 0
    /\ apply_transform(shape, Transform4D(NoRotation, transform.translation))
           = response

\* apply_transform applied to sh once per translation of ts, in order.
RECURSIVE ApplyAll(_, _)
ApplyAll(sh, ts) ==
    IF ts = <<>> THEN sh
    ELSE ApplyAll(apply_transform(sh, Transform4D(NoRotation, Head(ts))),
                  Tail(ts))

\* Exact (real-number) component-wise sums.
VecSum(a, b) == Vector4D(a.x + b.x, a.y + b.y, a.z + b.z, a.w + b.w)

RECURSIVE SumAll(_, _)
SumAll(p, ts) == IF ts = <<>> THEN p ELSE SumAll(VecSum(p, Head(ts)), Tail(ts))

VecAdd(a, b) ==
    Vector4D(FloatAdd(a.x, b.x), FloatAdd(a.y, b.y),
             FloatAdd(a.z, b.z), FloatAdd(a.w, b.w))

\* The translations of ts added up as floats, first to last.
RECURSIVE FloatSumFrom(_, _)
FloatSumFrom(acc, ts) ==
    IF ts = <<>> THEN acc ELSE FloatSumFrom(VecAdd(acc, Head(ts)), Tail(ts))

FloatSumAll(ts) == FloatSumFrom(DefaultPosition, ts)

\* No addition of the chain p + ts[1] + ts[2] + ... rounds.
RECURSIVE ExactChain(_, _)
ExactChain(p, ts) ==
    \/ ts = <<>>
    \/ /\ VecAdd(p, Head(ts)) = VecSum(p, Head(ts))
       /\ ExactChain(VecSum(p, Head(ts)), Tail(ts))

Perms(n) == {f \in [1..n -> 1..n] : \A a, b \in 1..n : f[a] = f[b] => a = b}

Permuted(ts, f) == [k \in 1..Len(ts) |-> ts[f[k]]]

\* The shape the chain has produced so far.
Current == IF pc = "responded" THEN response ELSE shape

\* C10 as stated: after any sequence of calls the shape has the vertices
\* and edges of S and position S.position + the sum of the translations
\* (every + a float addition);
\* the result does not depend on the order of the transforms, and t1 then
\* t2 equals one transform with translation t1 + t2.
C10_AsStated ==
    pc \in {"ready", "responded"} =>
    /\ SamePoints(Current, origin)
    /\ Current.position = VecAdd(origin.position, FloatSumAll(hist))
    /\ \A f \in Perms(Len(hist)) :
           ApplyAll(origin, Permuted(hist, f)) = Current
    /\ Len(hist) = 2 =>
           apply_transform(origin,
               Transform4D(NoRotation, VecAdd(hist[1], hist[2]))) = Current

\* C10 amended: the shape has the vertices and edges of S and its position
\* is S.position with the translations added one at a time, in the order
\* applied, each addition rounded.  Where no addition involved rounds, the
\* position is S.position + the exact sum, the same for every such order,
\* and t1 then t2 equals one transform with translation t1 + t2.
C10_SumOfTranslationsWhenExact ==
    pc \in {"ready", "responded"} =>
    /\ SamePoints(Current, origin)
    /\ Current = ApplyAll(origin, hist)
    /\ ExactChain(origin.position, hist) =>
           Current.position = SumAll(origin.position, hist)
    /\ \A f \in Perms(Len(hist)) :
           (/\ ExactChain(origin.position, hist)
            /\ ExactChain(origin.position, Permuted(hist, f)))
           => ApplyAll(origin, Permuted(hist, f)) = Current
    /\ (/\ Len(hist) = 2
        /\ ExactChain(origin.position, hist)
        /\ ExactChain(hist[1], <<hist[2]>>)
        /\ ExactChain(origin.position, <<VecSum(hist[1], hist[2])>>))
       => apply_transform(origin,
              Transform4D(NoRotation, VecAdd(hist[1], hist[2]))) = Current

C10_Witness ==
    /\ pc = "responded"
    /\ Len(hist) = 2
    /\ hist[1] # hist[2]
    /\ hist[1] # DefaultPosition /\ hist[2] # DefaultPosition
    /\ ExactChain(origin.position, hist)
    /\ ExactChain(origin.position, <<hist[2], hist[1]>>)
    /\ response.position = SumAll(origin.position, hist)

----------------------------------------------------------------------------
(* Properties of project_4d_to_3d *)

\* C6: called with distance equal to the point's w, the projection fails
\* with a division-by-zero error and returns no triple.
C6_ZeroDivisorRaises ==
    (pc = "projected" /\ distance = point[4]) =>
        /\ outcome.kind = "raise"
        /\ outcome.error = "ZeroDivisionError"
        /\ "value" \notin DOMAIN outcome

C6_Witness ==
    /\ pc = "projected"
    /\ distance = FromInt(4)
    /\ point = <<FromInt(1), FromInt(1), FromInt(1), FromInt(4)>>
    /\ outcome.kind = "raise"

\* C7: for distance # w the projection returns (x*f, y*f, z*f) with
\* f = distance / (distance - w); a point with w = 0 keeps its x, y, z, and
\* ((1,1,1,4), distance 5) gives (5,5,5).
C7_PerspectiveFactor ==
    (pc = "projected" /\ distance # point[4]) =>
        LET f == FloatDiv(distance, FloatSub(distance, point[4]))
        IN  /\ outcome.kind = "return"
            /\ outcome.value[1] = FloatMul(point[1], f)
            /\ outcome.value[2] = FloatMul(point[2], f)
            /\ outcome.value[3] = FloatMul(point[3], f)
            /\ Len(outcome.value) = 3
            /\ point[4] = 0 =>
                   outcome.value = <<point[1], point[2], point[3]>>
            /\ (/\ point = <<FromInt(1), FromInt(1), FromInt(1), FromInt(4)>>
                /\ distance = FromInt(5))
               => outcome.value = <<FromInt(5), FromInt(5), FromInt(5)>>

C7_Witness ==
    /\ pc = "projected"
    /\ point = <<FromInt(1), FromInt(1), FromInt(1), FromInt(4)>>
    /\ distance = FromInt(5)
    /\ outcome = Return(<<FromInt(5), FromInt(5), FromInt(5)>>)

----------------------------------------------------------------------------
(* Properties of the rotation matrices and of matrix_multiply_4d *)

\* The two axes (1-based rows/columns) of an implemented plane.
Axes(plane) ==
    CASE plane = "xy" -> <<1, 2>>
      [] plane = "xz" -> <<1, 3>>
      [] plane = "xw" -> <<1, 4>>

Kronecker(r, c) == IF r = c THEN FromInt(1) ELSE 0

\* C8: the matrix of plane (a, b) has c at (a,a) and (b,b), -s at (a,b),
\* s at (b,a), and the identity's entry everywhere else; at angle 0 it is
\* the identity matrix.
C8_RotationBlockInIdentity ==
    rotation.plane # "literal" =>
        LET c == math_cos(rotation.angle)
            s == math_sin(rotation.angle)
            a == Axes(rotation.plane)[1]
            b == Axes(rotation.plane)[2]
        IN  /\ a < b
            /\ matrix[a][a] = c
            /\ matrix[b][b] = c
            /\ matrix[a][b] = 0 - s
            /\ matrix[b][a] = s
            /\ \A r, k \in 1..4 :
                   ~(r \in {a, b} /\ k \in {a, b}) =>
                       matrix[r][k] = Kronecker(r, k)
            /\ rotation.angle = 0 =>
                   /\ c = FromInt(1) /\ s = 0
                   /\ \A r, k \in 1..4 : matrix[r][k] = Kronecker(r, k)

C8_Witness ==
    /\ rotation.plane # "literal"
    /\ rotation.plane = "xw"
    /\ rotation.angle = 1
    /\ matrix[1][4] = 0 - math_sin(1)
    /\ matrix[4][1] # 0
    /\ matrix[1][1] # FromInt(1)
    /\ matrix[2][2] = FromInt(1)

\* Row r of m times v: the four products added up from 0, j = 0..3.
RowSum(m, v, r) ==
    FloatAdd(FloatAdd(FloatAdd(FloatAdd(0,
        FloatMul(m[r][1], v[1])), FloatMul(m[r][2], v[2])),
        FloatMul(m[r][3], v[3])), FloatMul(m[r][4], v[4]))

\* The same sum in exact arithmetic, in units of Unit * Unit.
ExactRowSum(m, v, r) ==
    m[r][1] * v[1] + m[r][2] * v[2] + m[r][3] * v[3] + m[r][4] * v[4]

\* C9: component i of the product is the sum over j of matrix[i][j] *
\* vector[j] (the exact sum wherever it is a float and the accumulation did
\* not round on the way); matrix and vector are left unchanged; the identity
\* matrix returns the vector; the xy rotation with (c, s) = (0, 1) maps
\* (1,0,0,0) to (0,1,0,0).
C9_MatrixVectorProduct ==
    /\ [](pc = "returned" =>
            /\ Len(product) = 4
            /\ \A r \in 1..4 : product[r] = RowSum(matrix, vector, r)
            /\ \A r \in 1..4 :
                   (/\ \A k \in 1..4 : matrix[r][k] \in {0, Unit, 0 - Unit})
                   => product[r] =
                          Round(ExactRowSum(matrix, vector, r), Unit)
            /\ matrix = Identity4 => product = vector
            /\ (/\ rotation.plane # "literal"
                /\ rotation.plane = "xy"
                /\ math_cos(rotation.angle) = 0
                /\ math_sin(rotation.angle) = FromInt(1)
                /\ vector = <<FromInt(1), 0, 0, 0>>)
               => product = <<0, FromInt(1), 0, 0>>)
    /\ [][(pc \in {"mul_outer", "mul_inner"})
             => (matrix' = matrix /\ vector' = vector)]_vars

C9_Witness ==
    /\ pc = "returned"
    /\ rotation.plane # "literal"
    /\ rotation.plane = "xy"
    /\ rotation.angle = 3
    /\ vector = <<FromInt(1), 0, 0, 0>>
    /\ product = <<0, FromInt(1), 0, 0>>

====
